---- MODULE Spec2Model ----
(***************************************************************************)
(* A model of package pester (src/main.go): one Client, one call through   *)
(* Do / Get / Head / Post / PostForm, the orchestrator Client.pester and   *)
(* the worker goroutines it spawns, racing on the unbuffered resultCh and  *)
(* observing the closed finishCh.                                          *)
(* Also LogString, which the caller calls after its call, and the jittered *)
(* backoff strategies, which have a specification of their own.            *)
(***************************************************************************)
EXTENDS Integers, Sequences, FiniteSets, TLC

\* ------------------------------------------------------------------ bounds
\* Largest Concurrency the caller configures.
MaxConcurrency == 2
\* Largest MaxRetries the caller configures.
MaxRetriesBound == 3
\* Length of the longest request body.
MaxBodyLen == 2
\* Largest Concurrency * MaxRetries the caller configures.
MaxAttempts == 4
\* Largest attempt index a BackoffStrategy is called with.
MaxIndex == 3

\* ------------------------------------------------------- program constants
\* DefaultClient.Concurrency
DefaultConcurrency == 1
\* DefaultClient.MaxRetries
DefaultMaxRetries == 3
\* resp.StatusCode < 400 is a success
FailStatus == 400
\* jitter: ms := i * 1000
MsPerUnit == 1000
\* jitter: maxJitter := ms / 3
JitterDivisor == 3
\* LogString: the words the model keeps of one line, the line end among them
LineTokens == 6

\* ------------------------------------------------------------------ values
Workers == 0..(MaxConcurrency - 1)

ConcurrencyValues == (-1)..MaxConcurrency
MaxRetriesValues == (-1)..MaxRetriesBound

\* Status codes the target answers with.
StatusCodes == {200, 500}

\* error values
NilErr == [kind |-> "nil", code |-> 0]
TransportErr == [kind |-> "transport", code |-> 0]
ReadRequestBodyErr == [kind |-> "error reading request body", code |-> 0]
ReadBodyErr == [kind |-> "error reading body", code |-> 0]
\* fmt.Errorf("%v", resp.Status)
StatusErr(s) == [kind |-> "status", code |-> s]

\* *http.Response values: nil, &http.Response{} and a response with a status
NilResp == [kind |-> "nil", StatusCode |-> 0]
EmptyResp == [kind |-> "empty", StatusCode |-> 0]
Resp(s) == [kind |-> "resp", StatusCode |-> s]

\* What one round trip of the http.Client gives back: (resp, nil) or (nil, err).
TransportOutcomes ==
    {[resp |-> Resp(s), err |-> NilErr] : s \in StatusCodes}
        \cup {[resp |-> NilResp, err |-> TransportErr]}

\* Request bodies the caller supplies: none (a nil reader), or a reader of bytes.
Bytes(n) == [k \in 1..n |-> k]
NoBody == [present |-> FALSE, bytes |-> <<>>]
BodyInputs == {NoBody} \cup {[present |-> TRUE, bytes |-> Bytes(n)] : n \in {0, MaxBodyLen}}

\* req.Method of the request handed to Do
ReqMethods == {"GET", "HEAD", "POST"}

\* The strategies that go through jitter.
JitterStrategies == {"LinearJitterBackoff", "ExponentialJitterBackoff"}

VARIABLES
    Concurrency,          \* Client.Concurrency
    MaxRetries,           \* Client.MaxRetries
    KeepLog,              \* Client.KeepLog
    SuccessReqNum,        \* Client.SuccessReqNum
    SuccessRetryNum,      \* Client.SuccessRetryNum
    mutex,                \* Client.Mutex: -1 when free, else the worker holding it
    ErrLog,               \* Client.ErrLog
    p,                    \* params of the call
    originalRequestBody,  \* pester: bytes captured from p.req.Body
    originalBody,         \* pester: bytes captured from p.body
    concurrency,          \* pester: effective concurrency
    finishCh,             \* TRUE once close(finishCh) ran
    opc,                  \* position of the goroutine running pester
    req,                  \* pester: counter of the spawn loop
    res,                  \* pester: the result received from resultCh
    ret,                  \* what the call returned: [resp, err]
    wpc,                  \* position of each worker goroutine
    i,                    \* each worker's retry counter
    resp,                 \* each worker's local resp
    err,                  \* each worker's local err
    out,                  \* the result each worker offers on resultCh
    reqBody,              \* p.req.Body, shared through the *http.Request: the read
                          \* offset of the reader it points to
    seen,                 \* bytes the transport read as body of each worker's attempt in flight
    hist,                 \* per worker, the transport outcomes of its attempts, in order
    backoffs,             \* per worker, the indexes c.Backoff was called with, in order
    delivered,            \* workers whose send on resultCh was received, in order
    appended,             \* per worker, the slice append(c.ErrLog, e) built, not yet stored
    closes,               \* how many times close(finishCh) ran
    lateStarts,           \* per worker, the attempts it started after close(finishCh)
    midAtSignal,          \* the workers that had an attempt in flight at close(finishCh)
    lpc,                  \* position of the goroutine running LogString
    logSnap,              \* LogString: the slice its range statement read from c.ErrLog
    logOut,               \* the string LogString returned
    bStrategy,            \* the BackoffStrategy called
    bIndex,               \* its argument: the attempt index
    bMs                   \* the time.Duration it returned, in milliseconds; <<>> before

vars == <<Concurrency, MaxRetries, KeepLog, SuccessReqNum, SuccessRetryNum, mutex,
          ErrLog, p, originalRequestBody, originalBody, concurrency, finishCh, opc,
          req, res, ret, wpc, i, resp, err, out, reqBody, seen, hist,
          backoffs, delivered, appended, closes, lateStarts, midAtSignal, lpc, logSnap,
          logOut, bStrategy, bIndex, bMs>>

\* The variables of a LogString call.
reader == <<lpc, logSnap, logOut>>
\* The variables of a call of a BackoffStrategy.
strategy == <<bStrategy, bIndex, bMs>>


\* ----------------------------------------------------------- pure helpers
NoParams == [req |-> NoBody, method |-> "", verb |-> "", body |-> NoBody]
NoResult == [resp |-> NilResp, err |-> NilErr, req |-> 0, retry |-> 0]
NoReturn == [resp |-> NilResp, err |-> NilErr]

\* return &http.Response{}, errors.New("error reading request body")
ReadRequestBodyFailed == [resp |-> EmptyResp, err |-> ReadRequestBodyErr]
\* return &http.Response{}, errors.New("error reading body")
ReadBodyFailed == [resp |-> EmptyResp, err |-> ReadBodyErr]

\* The params the entry points without a body build.
GetParams == [req |-> NoBody, method |-> "Get", verb |-> "GET", body |-> NoBody]
HeadParams == [req |-> NoBody, method |-> "Head", verb |-> "HEAD", body |-> NoBody]
PostFormParams == [req |-> NoBody, method |-> "PostForm", verb |-> "POST", body |-> NoBody]

\* pester: concurrency := c.Concurrency; if p.verb != "GET" { concurrency = 1 }
EffectiveConcurrencyAllVerbs(verb, configured) == configured
EffectiveConcurrencyHeadToo(verb, configured) ==
    IF verb \notin {"GET", "HEAD"} THEN 1 ELSE configured
\* A concurrency below 1 raised to 1.
EffectiveConcurrencyAtLeastOne(verb, configured) ==
    IF verb # "GET" \/ configured < 1 THEN 1 ELSE configured
EffectiveConcurrency(verb, configured) ==
    IF verb # "GET" THEN 1 ELSE configured

\* The comparison turned around: err == nil && resp.StatusCode > 400
IsSuccessInverted(r, e) == e = NilErr /\ r.StatusCode > FailStatus

\* The status left out: err == nil
IsSuccessAnyStatus(r, e) == e = NilErr

\* err == nil && resp.StatusCode < 400
IsSuccess(r, e) == e = NilErr /\ r.StatusCode < FailStatus

\* if err == nil { err = fmt.Errorf("%v", resp.Status) }
Classify(r, e) == IF e = NilErr THEN StatusErr(r.StatusCode) ELSE e

\* result{resp: resp, err: err, req: n, retry: i}
SuccessResult(n, k, r, e) == [resp |-> r, err |-> e, req |-> n, retry |-> k]

\* result{resp: resp, err: err}: req and retry keep their zero value
ExhaustedResult(n, k, r, e) == [resp |-> r, err |-> e, req |-> 0, retry |-> 0]

\* ErrEntry{Method, Verb, Request: n, Retry: i, Err: err}
Entry(n, k, e) ==
    [Method |-> p.method, Verb |-> p.verb, Request |-> n, Retry |-> k, Err |-> e]

\* ---------------------------------------------------------------- Init
\* New(): the defaults of DefaultClient, zero values elsewhere; no call yet.
InitClient ==
    /\ Concurrency = DefaultConcurrency
    /\ MaxRetries = DefaultMaxRetries
    /\ KeepLog = FALSE
    /\ SuccessReqNum = 0
    /\ SuccessRetryNum = 0
    /\ mutex = -1
    /\ ErrLog = <<>>
    /\ p = NoParams
    /\ originalRequestBody = <<>>
    /\ originalBody = <<>>
    /\ concurrency = 0
    /\ finishCh = FALSE
    /\ opc = "idle"
    /\ req = 0
    /\ res = NoResult
    /\ ret = NoReturn
    /\ wpc = [w \in Workers |-> "none"]
    /\ i = [w \in Workers |-> 0]
    /\ resp = [w \in Workers |-> NilResp]
    /\ err = [w \in Workers |-> NilErr]
    /\ out = [w \in Workers |-> NoResult]
    /\ reqBody = 0
    /\ seen = [w \in Workers |-> <<>>]
    /\ hist = [w \in Workers |-> <<>>]
    /\ backoffs = [w \in Workers |-> <<>>]
    /\ delivered = <<>>
    /\ appended = [w \in Workers |-> <<>>]
    /\ closes = 0
    /\ lateStarts = [w \in Workers |-> 0]
    /\ midAtSignal = {}
    /\ lpc = "idle"
    /\ logSnap = <<>>
    /\ logOut = <<>>

\* New(), and no BackoffStrategy called.
Init ==
    /\ InitClient
    /\ bStrategy = "none"
    /\ bIndex = 0
    /\ bMs = <<>>

\* ------------------------------------------------------------ the caller
\* The caller sets the pester fields of the Client before the call.
Configure(c, n, k) ==
    /\ opc = "idle"
    /\ c * n <= MaxAttempts
    /\ Concurrency' = c
    /\ MaxRetries' = n
    /\ KeepLog' = k
    /\ UNCHANGED <<appended, closes, lateStarts, midAtSignal, reader, strategy,
                   SuccessReqNum, SuccessRetryNum, mutex, ErrLog, p, originalRequestBody,
                   originalBody, concurrency, finishCh, opc, req, res, ret, wpc, i, resp,
                   err, out, reqBody, seen, hist, backoffs, delivered>>

\* pester up to the spawn loop: the channels, the effective concurrency and the
\* capture of the body; a body that cannot be read ends the call at once.
PesterBegin(prm, readFails) ==
    /\ opc = "idle"
    /\ p' = prm
    /\ concurrency' = EffectiveConcurrency(prm.verb, Concurrency)
    /\ finishCh' = FALSE
    /\ req' = 0
    /\ IF prm.req.present /\ readFails
         THEN /\ ret' = ReadRequestBodyFailed
              /\ opc' = "readError"
              /\ UNCHANGED <<originalRequestBody, originalBody, reqBody>>
         ELSE IF prm.body.present /\ readFails
         THEN /\ ret' = ReadBodyFailed
              /\ opc' = "readError"
              /\ UNCHANGED <<originalRequestBody, originalBody, reqBody>>
         ELSE /\ originalRequestBody' = prm.req.bytes
              /\ originalBody' = prm.body.bytes
              /\ reqBody' = Len(prm.req.bytes)
              /\ opc' = "spawn"
              /\ UNCHANGED ret
    /\ UNCHANGED <<appended, closes, lateStarts, midAtSignal, reader, strategy,
                   Concurrency, MaxRetries, KeepLog, SuccessReqNum, SuccessRetryNum, mutex,
                   ErrLog, res, wpc, i, resp, err, out, seen, hist, backoffs, delivered>>

\* Client.Do
ClientDo(v, b, readFails) ==
    PesterBegin([req |-> b, method |-> "Do", verb |-> v, body |-> NoBody], readFails)

\* Client.Get
ClientGet ==
    PesterBegin(GetParams, FALSE)

\* Client.Head
ClientHead ==
    PesterBegin(HeadParams, FALSE)

\* Client.Post
ClientPost(b, readFails) ==
    PesterBegin([req |-> NoBody, method |-> "Post", verb |-> "POST", body |-> b], readFails)

\* Client.PostForm
ClientPostForm ==
    PesterBegin(PostFormParams, FALSE)

\* ------------------------------------------------------- the orchestrator
\* The spawn loop with req <= concurrency for req < concurrency.
SpawnOneMore ==
    /\ opc = "spawn"
    /\ IF req <= concurrency
         THEN /\ wpc' = [wpc EXCEPT ![req] = "loop"]
              /\ i' = [i EXCEPT ![req] = 0]
              /\ resp' = [resp EXCEPT ![req] = EmptyResp]
              /\ err' = [err EXCEPT ![req] = NilErr]
              /\ req' = req + 1
              /\ UNCHANGED opc
         ELSE /\ opc' = "recv"
              /\ UNCHANGED <<wpc, i, resp, err, req>>
    /\ UNCHANGED <<appended, closes, lateStarts, midAtSignal, reader, strategy,
                   Concurrency, MaxRetries, KeepLog, SuccessReqNum, SuccessRetryNum, mutex,
                   ErrLog, p, originalRequestBody, originalBody, concurrency, finishCh, res,
                   ret, out, reqBody, seen, hist, backoffs, delivered>>

\* for req := 0; req < concurrency; req++ { go func(n int, p params) {...}(req, p) }
Spawn ==
    /\ opc = "spawn"
    /\ IF req < concurrency
         THEN /\ wpc' = [wpc EXCEPT ![req] = "loop"]
              /\ i' = [i EXCEPT ![req] = 0]
              /\ resp' = [resp EXCEPT ![req] = EmptyResp]
              /\ err' = [err EXCEPT ![req] = NilErr]
              /\ req' = req + 1
              /\ UNCHANGED opc
         ELSE /\ opc' = "recv"
              /\ UNCHANGED <<wpc, i, resp, err, req>>
    /\ UNCHANGED <<appended, closes, lateStarts, midAtSignal, reader, strategy,
                   Concurrency, MaxRetries, KeepLog, SuccessReqNum, SuccessRetryNum, mutex,
                   ErrLog, p, originalRequestBody, originalBody, concurrency, finishCh, res,
                   ret, out, reqBody, seen, hist, backoffs, delivered>>

\* A receive loop that goes on receiving and returning after the first outcome.
ReceiveEveryOutcome(w) ==
    /\ opc \in {"recv", "returned"}
    /\ wpc[w] \in {"sendOK", "sendExhausted"}
    /\ res' = out[w]
    /\ delivered' = IF delivered = <<>> THEN <<w>> ELSE delivered
    /\ wpc' = [wpc EXCEPT ![w] = "done"]
    /\ opc' = "record"
    /\ UNCHANGED <<appended, closes, lateStarts, midAtSignal, reader, strategy,
                   Concurrency, MaxRetries, KeepLog, SuccessReqNum, SuccessRetryNum, mutex,
                   ErrLog, p, originalRequestBody, originalBody, concurrency, finishCh, req,
                   ret, i, resp, err, out, reqBody, seen, hist, backoffs>>

\* case res := <-resultCh: the rendezvous with a worker blocked in its send
Receive(w) ==
    /\ opc = "recv"
    /\ wpc[w] \in {"sendOK", "sendExhausted"}
    /\ res' = out[w]
    /\ delivered' = Append(delivered, w)
    /\ wpc' = [wpc EXCEPT ![w] = "done"]
    /\ opc' = "close"
    /\ UNCHANGED <<appended, closes, lateStarts, midAtSignal, reader, strategy,
                   Concurrency, MaxRetries, KeepLog, SuccessReqNum, SuccessRetryNum, mutex,
                   ErrLog, p, originalRequestBody, originalBody, concurrency, finishCh, req,
                   ret, i, resp, err, out, reqBody, seen, hist, backoffs>>

\* close(finishCh)
CloseFinish ==
    /\ opc = "close"
    /\ finishCh' = TRUE
    /\ closes' = closes + 1
    /\ midAtSignal' = {w \in Workers : wpc[w] = "inflight"}
    /\ opc' = "record"
    /\ UNCHANGED <<appended, lateStarts, reader, strategy,
                   Concurrency, MaxRetries, KeepLog, SuccessReqNum, SuccessRetryNum, mutex,
                   ErrLog, p, originalRequestBody, originalBody, concurrency, req, res, ret,
                   wpc, i, resp, err, out, reqBody, seen, hist, backoffs,
                   delivered>>

\* The receive loop without its return: after recording it receives again.
RecordAndReceiveAgain ==
    /\ opc = "record"
    /\ SuccessReqNum' = res.req
    /\ SuccessRetryNum' = res.retry
    /\ ret' = [resp |-> res.resp, err |-> res.err]
    /\ opc' = "recv"
    /\ UNCHANGED <<appended, closes, lateStarts, midAtSignal, reader, strategy,
                   Concurrency, MaxRetries, KeepLog, mutex, ErrLog, p, originalRequestBody,
                   originalBody, concurrency, finishCh, req, res, wpc, i, resp, err, out,
                   reqBody, seen, hist, backoffs, delivered>>

\* c.SuccessReqNum = res.req; c.SuccessRetryNum = res.retry; return res.resp, res.err
RecordAndReturn ==
    /\ opc = "record"
    /\ SuccessReqNum' = res.req
    /\ SuccessRetryNum' = res.retry
    /\ ret' = [resp |-> res.resp, err |-> res.err]
    /\ opc' = "returned"
    /\ UNCHANGED <<appended, closes, lateStarts, midAtSignal, reader, strategy,
                   Concurrency, MaxRetries, KeepLog, mutex, ErrLog, p, originalRequestBody,
                   originalBody, concurrency, finishCh, req, res, wpc, i, resp, err, out,
                   reqBody, seen, hist, backoffs, delivered>>

\* ------------------------------------------------------------ the workers
\* The retry loop with i <= c.MaxRetries for i < c.MaxRetries.
WorkerLoopOneMore(w) ==
    /\ wpc[w] = "loop"
    /\ IF ~(i[w] <= MaxRetries)
         THEN /\ out' = [out EXCEPT ![w] = ExhaustedResult(w, i[w], resp[w], err[w])]
              /\ wpc' = [wpc EXCEPT ![w] = "sendExhausted"]
         ELSE /\ UNCHANGED out
              /\ wpc' = [wpc EXCEPT ![w] =
                            IF finishCh THEN "cancelled"
                            ELSE IF Len(originalRequestBody) > 0 THEN "rehydrate"
                            ELSE "dispatch"]
    /\ UNCHANGED <<appended, closes, lateStarts, midAtSignal, reader, strategy,
                   Concurrency, MaxRetries, KeepLog, SuccessReqNum, SuccessRetryNum, mutex,
                   ErrLog, p, originalRequestBody, originalBody, concurrency, finishCh, opc,
                   req, res, ret, i, resp, err, reqBody, seen, hist, backoffs, delivered>>

\* The retry loop without the select on finishCh.
WorkerLoopIgnoresFinish(w) ==
    /\ wpc[w] = "loop"
    /\ IF ~(i[w] < MaxRetries)
         THEN /\ out' = [out EXCEPT ![w] = ExhaustedResult(w, i[w], resp[w], err[w])]
              /\ wpc' = [wpc EXCEPT ![w] = "sendExhausted"]
         ELSE /\ UNCHANGED out
              /\ wpc' = [wpc EXCEPT ![w] =
                            IF Len(originalRequestBody) > 0 THEN "rehydrate" ELSE "dispatch"]
    /\ UNCHANGED <<appended, closes, lateStarts, midAtSignal, reader, strategy,
                   Concurrency, MaxRetries, KeepLog, SuccessReqNum, SuccessRetryNum, mutex,
                   ErrLog, p, originalRequestBody, originalBody, concurrency, finishCh, opc,
                   req, res, ret, i, resp, err, reqBody, seen, hist, backoffs, delivered>>

\* The head of the retry loop: i < c.MaxRetries, then the select on finishCh; the
\* worker-local p.body is re-created here (bytes.NewBuffer(originalBody)).
WorkerLoop(w) ==
    /\ wpc[w] = "loop"
    /\ IF ~(i[w] < MaxRetries)
         THEN /\ out' = [out EXCEPT ![w] = ExhaustedResult(w, i[w], resp[w], err[w])]
              /\ wpc' = [wpc EXCEPT ![w] = "sendExhausted"]
         ELSE /\ UNCHANGED out
              /\ wpc' = [wpc EXCEPT ![w] =
                            IF finishCh THEN "cancelled"
                            ELSE IF Len(originalRequestBody) > 0 THEN "rehydrate"
                            ELSE "dispatch"]
    /\ UNCHANGED <<appended, closes, lateStarts, midAtSignal, reader, strategy,
                   Concurrency, MaxRetries, KeepLog, SuccessReqNum, SuccessRetryNum, mutex,
                   ErrLog, p, originalRequestBody, originalBody, concurrency, finishCh, opc,
                   req, res, ret, i, resp, err, reqBody, seen, hist, backoffs,
                   delivered>>

\* p.req.Body = ioutil.NopCloser(bytes.NewBuffer(originalRequestBody)): p.req is the
\* one *http.Request every worker's copy of p points to.
WorkerRehydrate(w) ==
    /\ wpc[w] = "rehydrate"
    /\ reqBody' = 0
    /\ wpc' = [wpc EXCEPT ![w] = "dispatch"]
    /\ UNCHANGED <<appended, closes, lateStarts, midAtSignal, reader, strategy,
                   Concurrency, MaxRetries, KeepLog, SuccessReqNum, SuccessRetryNum, mutex,
                   ErrLog, p, originalRequestBody, originalBody, concurrency, finishCh, opc,
                   req, res, ret, i, resp, err, out, seen, hist, backoffs, delivered>>

\* What a reader over bytes b, already read up to off, still yields.
Remaining(b, off) == SubSeq(b, off + 1, Len(b))

\* switch p.method: the call into the http.Client, which sends the body: Do sends what
\* p.req.Body still yields and drains it, Post the worker's own p.body, the others
\* none. The transport's reading of the body is taken as one step.
WorkerDispatch(w) ==
    /\ wpc[w] = "dispatch"
    /\ IF p.method = "Do" /\ p.req.present
         THEN /\ seen' = [seen EXCEPT ![w] = Remaining(originalRequestBody, reqBody)]
              /\ reqBody' = Len(originalRequestBody)
         ELSE /\ seen' = [seen EXCEPT ![w] = IF p.method = "Post" THEN originalBody ELSE <<>>]
              /\ UNCHANGED reqBody
    /\ wpc' = [wpc EXCEPT ![w] = "inflight"]
    /\ lateStarts' = [lateStarts EXCEPT ![w] = IF finishCh THEN @ + 1 ELSE @]
    /\ UNCHANGED <<appended, closes, midAtSignal, reader, strategy,
                   Concurrency, MaxRetries, KeepLog, SuccessReqNum, SuccessRetryNum, mutex,
                   ErrLog, p, originalRequestBody, originalBody, concurrency, finishCh, opc,
                   req, res, ret, i, resp, err, out, hist, backoffs, delivered>>

\* A worker whose err, once set, is not overwritten by a later attempt's error.
WorkerResponseKeepsFirstErr(w, o) ==
    /\ wpc[w] = "inflight"
    /\ resp' = [resp EXCEPT ![w] = o.resp]
    /\ hist' = [hist EXCEPT ![w] = Append(@, o)]
    /\ seen' = [seen EXCEPT ![w] = <<>>]
    /\ IF IsSuccess(o.resp, o.err)
         THEN /\ err' = [err EXCEPT ![w] = o.err]
              /\ out' = [out EXCEPT ![w] = SuccessResult(w, i[w], o.resp, o.err)]
              /\ wpc' = [wpc EXCEPT ![w] = "sendOK"]
         ELSE /\ err' = [err EXCEPT ![w] =
                            IF err[w] # NilErr THEN err[w] ELSE Classify(o.resp, o.err)]
              /\ wpc' = [wpc EXCEPT ![w] = IF KeepLog THEN "log" ELSE "backoff"]
              /\ UNCHANGED out
    /\ UNCHANGED <<appended, closes, lateStarts, midAtSignal, reader, strategy,
                   Concurrency, MaxRetries, KeepLog, SuccessReqNum, SuccessRetryNum, mutex,
                   ErrLog, p, originalRequestBody, originalBody, concurrency, finishCh, opc,
                   req, res, ret, i, reqBody, backoffs, delivered>>

\* resp, err = httpClient.X(...) returns o; a success is offered on resultCh, a
\* failure is classified and handed to c.log, which keeps nothing without KeepLog.
WorkerResponse(w, o) ==
    /\ wpc[w] = "inflight"
    /\ resp' = [resp EXCEPT ![w] = o.resp]
    /\ hist' = [hist EXCEPT ![w] = Append(@, o)]
    /\ seen' = [seen EXCEPT ![w] = <<>>]
    /\ IF IsSuccess(o.resp, o.err)
         THEN /\ err' = [err EXCEPT ![w] = o.err]
              /\ out' = [out EXCEPT ![w] = SuccessResult(w, i[w], o.resp, o.err)]
              /\ wpc' = [wpc EXCEPT ![w] = "sendOK"]
         ELSE /\ err' = [err EXCEPT ![w] = Classify(o.resp, o.err)]
              /\ wpc' = [wpc EXCEPT ![w] = IF KeepLog THEN "log" ELSE "backoff"]
              /\ UNCHANGED out
    /\ UNCHANGED <<appended, closes, lateStarts, midAtSignal, reader, strategy,
                   Concurrency, MaxRetries, KeepLog, SuccessReqNum, SuccessRetryNum, mutex,
                   ErrLog, p, originalRequestBody, originalBody, concurrency, finishCh, opc,
                   req, res, ret, i, reqBody, backoffs, delivered>>

\* c.log(e) with KeepLog and no c.Lock() before the append.
WorkerLogNoLock(w) ==
    /\ wpc[w] = "log"
    /\ mutex' = w
    /\ wpc' = [wpc EXCEPT ![w] = "append"]
    /\ UNCHANGED <<appended, closes, lateStarts, midAtSignal, reader, strategy,
                   Concurrency, MaxRetries, KeepLog, SuccessReqNum, SuccessRetryNum, ErrLog,
                   p, originalRequestBody, originalBody, concurrency, finishCh, opc, req,
                   res, ret, i, resp, err, out, reqBody, seen, hist, backoffs, delivered>>

\* c.log(e) with KeepLog: c.Lock()
WorkerLog(w) ==
    /\ wpc[w] = "log"
    /\ mutex = -1
    /\ mutex' = w
    /\ wpc' = [wpc EXCEPT ![w] = "append"]
    /\ UNCHANGED <<appended, closes, lateStarts, midAtSignal, reader, strategy,
                   Concurrency, MaxRetries, KeepLog, SuccessReqNum, SuccessRetryNum, ErrLog,
                   p, originalRequestBody, originalBody, concurrency, finishCh, opc, req,
                   res, ret, i, resp, err, out, reqBody, seen, hist, backoffs,
                   delivered>>

\* append(c.ErrLog, e): the slice with e behind the entries c.ErrLog holds now
WorkerAppend(w) ==
    /\ wpc[w] = "append"
    /\ appended' = [appended EXCEPT ![w] = Append(ErrLog, Entry(w, i[w], err[w]))]
    /\ wpc' = [wpc EXCEPT ![w] = "store"]
    /\ UNCHANGED <<closes, lateStarts, midAtSignal, reader, strategy,
                   Concurrency, MaxRetries, KeepLog, SuccessReqNum, SuccessRetryNum, mutex,
                   ErrLog, p, originalRequestBody, originalBody, concurrency, finishCh, opc,
                   req, res, ret, i, resp, err, out, reqBody, seen, hist, backoffs,
                   delivered>>

\* c.ErrLog = <that slice>; c.Unlock()
WorkerStore(w) ==
    /\ wpc[w] = "store"
    /\ ErrLog' = appended[w]
    /\ appended' = [appended EXCEPT ![w] = <<>>]
    /\ mutex' = -1
    /\ wpc' = [wpc EXCEPT ![w] = "backoff"]
    /\ UNCHANGED <<closes, lateStarts, midAtSignal, reader, strategy,
                   Concurrency, MaxRetries, KeepLog, SuccessReqNum, SuccessRetryNum, p,
                   originalRequestBody, originalBody, concurrency, finishCh, opc, req, res,
                   ret, i, resp, err, out, reqBody, seen, hist, backoffs, delivered>>

\* A retry loop that waits between attempts only: no backoff after the last one.
WorkerBackoffNotAfterLast(w) ==
    /\ wpc[w] = "backoff"
    /\ backoffs' = [backoffs EXCEPT ![w] = IF i[w] + 1 < MaxRetries THEN Append(@, i[w]) ELSE @]
    /\ i' = [i EXCEPT ![w] = @ + 1]
    /\ wpc' = [wpc EXCEPT ![w] = "loop"]
    /\ UNCHANGED <<appended, closes, lateStarts, midAtSignal, reader, strategy,
                   Concurrency, MaxRetries, KeepLog, SuccessReqNum, SuccessRetryNum, mutex,
                   ErrLog, p, originalRequestBody, originalBody, concurrency, finishCh, opc,
                   req, res, ret, resp, err, out, reqBody, seen, hist, delivered>>

\* <-time.Tick(c.Backoff(i) + 1*time.Microsecond), then i++
WorkerBackoff(w) ==
    /\ wpc[w] = "backoff"
    /\ backoffs' = [backoffs EXCEPT ![w] = Append(@, i[w])]
    /\ i' = [i EXCEPT ![w] = @ + 1]
    /\ wpc' = [wpc EXCEPT ![w] = "loop"]
    /\ UNCHANGED <<appended, closes, lateStarts, midAtSignal, reader, strategy,
                   Concurrency, MaxRetries, KeepLog, SuccessReqNum, SuccessRetryNum, mutex,
                   ErrLog, p, originalRequestBody, originalBody, concurrency, finishCh, opc,
                   req, res, ret, resp, err, out, reqBody, seen, hist,
                   delivered>>

\* ------------------------------------------------------------- LogString
\* err.Error() as %s prints it: the status for a classified response, the
\* transport's text otherwise, and fmt's text for a nil error.
ErrString(e) ==
    IF e.kind = "status" THEN ToString(e.code)
    ELSE IF e.kind = "nil" THEN "%!s(<nil>)"
    ELSE e.kind

\* fmt.Sprintf("%d %s [%s] to %s request-%d retry-%d error: %s\n", ...): the words of
\* one line; the time and the URL, which the model does not carry, are left out.
Sprintf(e) ==
    <<e.Method, e.Verb, ToString(e.Request), ToString(e.Retry), ErrString(e.Err), "\n">>

\* for _, e := range log { res += fmt.Sprintf(...) }, from entry k on
RECURSIVE Render(_, _, _)
Render(log, k, r) ==
    IF k > Len(log) THEN r ELSE Render(log, k + 1, r \o Sprintf(log[k]))

\* The memory behind the last entry of the array of c.ErrLog, read as an ErrEntry.
StaleEntry == [Method |-> "", Verb |-> "", Request |-> 0, Retry |-> 0, Err |-> NilErr]

\* LogString, which the caller calls once its call is over: the range statement loads
\* c.ErrLog. LogString takes no lock, so while a worker stores the appended slice the
\* load races with that store and can be torn: it pairs the old array with the new
\* length. The loop then reads one entry past the old array, memory that holds no
\* entry of the log, or dereferences the nil array of an empty log and panics.
LogStringRange(torn) ==
    /\ opc \in {"returned", "readError"}
    /\ lpc = "idle"
    /\ torn => \E w \in Workers : wpc[w] = "store"
    /\ logSnap' = IF torn /\ ErrLog # <<>> THEN Append(ErrLog, StaleEntry) ELSE ErrLog
    /\ lpc' = IF torn /\ ErrLog = <<>> THEN "panic" ELSE "range"
    /\ UNCHANGED <<Concurrency, MaxRetries, KeepLog, SuccessReqNum, SuccessRetryNum, mutex,
                   ErrLog, p, originalRequestBody, originalBody, concurrency, finishCh, opc,
                   req, res, ret, wpc, i, resp, err, out, reqBody, seen, hist, backoffs,
                   delivered, appended, closes, lateStarts, midAtSignal, logOut, strategy>>

\* LogString: the loop over the loaded slice, and return res.
LogStringReturn ==
    /\ lpc = "range"
    /\ logOut' = Render(logSnap, 1, <<>>)
    /\ lpc' = "returned"
    /\ UNCHANGED <<Concurrency, MaxRetries, KeepLog, SuccessReqNum, SuccessRetryNum, mutex,
                   ErrLog, p, originalRequestBody, originalBody, concurrency, finishCh, opc,
                   req, res, ret, wpc, i, resp, err, out, reqBody, seen, hist, backoffs,
                   delivered, appended, closes, lateStarts, midAtSignal, logSnap, strategy>>

\* ------------------------------------------------ the jittered strategies
\* math.Pow(2, float64(i)) for the indexes of the model, where it is exact
RECURSIVE Pow2(_)
Pow2(n) == IF n = 0 THEN 1 ELSE 2 * Pow2(n - 1)

\* jitter without the floor: if ms <= 0 { ms = 1 } left out
jitterNoFloor(n, r, up) ==
    LET ms == n * MsPerUnit
    IN  IF up THEN ms + r ELSE ms - r

\* jitter(i): r is what rand.Intn(maxJitter+1) returned and up whether rand.Intn(2)
\* returned 1; the result is the millisecond count of the time.Duration.
jitter(n, r, up) ==
    LET ms == n * MsPerUnit
        moved == IF up THEN ms + r ELSE ms - r
    IN  IF moved <= 0 THEN 1 ELSE moved

\* maxJitter := ms / 3: the largest value rand.Intn(maxJitter+1) returns
maxJitter(n) == (n * MsPerUnit) \div JitterDivisor

\* LinearJitterBackoff(i) == jitter(i)
LinearJitterBackoff(r, up) ==
    /\ bStrategy = "LinearJitterBackoff"
    /\ bMs = <<>>
    /\ r \in 0..maxJitter(bIndex)
    /\ bMs' = <<jitter(bIndex, r, up)>>
    /\ UNCHANGED <<Concurrency, MaxRetries, KeepLog, SuccessReqNum, SuccessRetryNum, mutex,
                   ErrLog, p, originalRequestBody, originalBody, concurrency, finishCh, opc,
                   req, res, ret, wpc, i, resp, err, out, reqBody, seen, hist, backoffs,
                   delivered, appended, closes, lateStarts, midAtSignal, reader, bStrategy,
                   bIndex>>

\* ExponentialJitterBackoff(i) == jitter(int(math.Pow(2, float64(i))))
ExponentialJitterBackoff(r, up) ==
    /\ bStrategy = "ExponentialJitterBackoff"
    /\ bMs = <<>>
    /\ r \in 0..maxJitter(Pow2(bIndex))
    /\ bMs' = <<jitter(Pow2(bIndex), r, up)>>
    /\ UNCHANGED <<Concurrency, MaxRetries, KeepLog, SuccessReqNum, SuccessRetryNum, mutex,
                   ErrLog, p, originalRequestBody, originalBody, concurrency, finishCh, opc,
                   req, res, ret, wpc, i, resp, err, out, reqBody, seen, hist, backoffs,
                   delivered, appended, closes, lateStarts, midAtSignal, reader, bStrategy,
                   bIndex>>

\* ------------------------------------------------------- the specification
WorkerStep(w) ==
    \/ WorkerLoop(w)
    \/ WorkerRehydrate(w)
    \/ WorkerDispatch(w)
    \/ \E o \in TransportOutcomes : WorkerResponse(w, o)
    \/ WorkerLog(w)
    \/ WorkerAppend(w)
    \/ WorkerStore(w)
    \/ WorkerBackoff(w)

OrchestratorStep ==
    \/ Spawn
    \/ \E w \in Workers : Receive(w)
    \/ CloseFinish
    \/ RecordAndReturn

Next ==
    \/ \E c \in ConcurrencyValues, n \in MaxRetriesValues, k \in BOOLEAN : Configure(c, n, k)
    \/ \E v \in ReqMethods, b \in BodyInputs, f \in BOOLEAN : ClientDo(v, b, f)
    \/ ClientGet
    \/ ClientHead
    \/ \E b \in BodyInputs, f \in BOOLEAN : ClientPost(b, f)
    \/ ClientPostForm
    \/ OrchestratorStep
    \/ \E w \in Workers : WorkerStep(w)
    \/ \E torn \in BOOLEAN : LogStringRange(torn)
    \/ LogStringReturn

Spec == Init /\ [][Next]_vars

\* One call of a jittered strategy with an index of the model, on a fresh Client.
JitterInit ==
    /\ InitClient
    /\ bStrategy \in JitterStrategies
    /\ bIndex \in 0..MaxIndex
    /\ bMs = <<>>

JitterNext ==
    \/ \E r \in 0..maxJitter(bIndex), up \in BOOLEAN : LinearJitterBackoff(r, up)
    \/ \E r \in 0..maxJitter(Pow2(bIndex)), up \in BOOLEAN : ExponentialJitterBackoff(r, up)

JitterSpec == JitterInit /\ [][JitterNext]_vars

\* The Go scheduler runs every runnable goroutine, every round trip ends (with a
\* response or an error) and every tick arrives.
FairSpec ==
    /\ Spec
    /\ WF_vars(OrchestratorStep)
    /\ \A w \in Workers : WF_vars(WorkerStep(w))

\* =================================================================== claims
\* The spawn loop has ended: every worker of the call exists.
SpawnDone == opc \in {"recv", "close", "record", "returned"}
\* The workers spawned so far.
Spawned == {w \in Workers : wpc[w] # "none"}
\* The workers with an attempt in flight.
InFlight == {w \in Workers : wpc[w] = "inflight"}
\* A transport outcome that is a success: no error and a status below 400.
Succeeded(o) == o.err.kind = "nil" /\ o.resp.kind = "resp" /\ o.resp.StatusCode < FailStatus
\* The worker whose outcome the orchestrator received.
Winner == delivered[1]

\* C1 (as claimed): a call through Post, PostForm or Do, whatever the method of the
\* request given to Do, with Concurrency > 1 spawns exactly one worker and has at
\* most one attempt in flight.
C1_Original ==
    (p.method \in {"Post", "PostForm", "Do"} /\ Concurrency > 1)
        => /\ Cardinality(InFlight) <= 1
           /\ Spawned \subseteq {0}
           /\ SpawnDone => (Spawned = {0} /\ req = 1)

\* C1 (amended): a call through Post, PostForm, or through Do with a request whose
\* method is not GET, with Concurrency > 1 spawns exactly one worker and has at most
\* one attempt in flight.
C1_NonGetOneWorker ==
    (p.method \in {"Post", "PostForm", "Do"} /\ p.verb # "GET" /\ Concurrency > 1)
        => /\ Cardinality(InFlight) <= 1
           /\ Spawned \subseteq {0}
           /\ SpawnDone => (Spawned = {0} /\ req = 1)

\* A Do of a POST request on a client with Concurrency > 1, its only worker mid-attempt.
C1_Witness ==
    /\ p.method = "Do" /\ p.verb = "POST" /\ Concurrency > 1
    /\ opc = "recv" /\ Spawned = {0} /\ InFlight = {0}

\* C2 (as claimed): a call through Get or Head with Concurrency = K > 1 spawns exactly
\* the K workers 0..K-1.
C2_Original ==
    (p.method \in {"Get", "Head"} /\ Concurrency > 1 /\ SpawnDone)
        => (Spawned = 0..(Concurrency - 1) /\ req = Concurrency)

\* C2 (amended): with Concurrency = K > 1, a call through Get spawns exactly the K
\* workers 0..K-1 and a call through Head spawns exactly one worker, worker 0.
C2_GetFansOutHeadDoesNot ==
    /\ (p.method = "Get" /\ Concurrency > 1 /\ SpawnDone)
           => (Spawned = 0..(Concurrency - 1) /\ req = Concurrency)
    /\ (p.method = "Head" /\ Concurrency > 1 /\ SpawnDone)
           => (Spawned = {0} /\ req = 1)

\* A Get with Concurrency = 2 whose two workers both have an attempt in flight.
C2_Witness ==
    /\ p.method = "Get" /\ Concurrency = 2 /\ SpawnDone
    /\ Spawned = {0, 1} /\ InFlight = {0, 1}

\* C3: the value a call returns from its receive loop is the first outcome delivered
\* on resultCh, and stays that outcome whatever the other workers offer later.
C3_FirstDeliveredIsReturned ==
    /\ Len(delivered) <= 1
    /\ opc = "returned"
           => /\ Len(delivered) = 1
              /\ ret.resp = out[Winner].resp
              /\ ret.err = out[Winner].err
              /\ out[Winner] \in {SuccessResult(Winner, i[Winner], resp[Winner], err[Winner]),
                                  ExhaustedResult(Winner, i[Winner], resp[Winner], err[Winner])}

\* The call returned the exhausted failure of one worker while another worker, which
\* went on retrying, holds a success nobody receives.
C3_Witness ==
    /\ opc = "returned"
    /\ ret.err # NilErr
    /\ \A k \in 1..Len(hist[Winner]) : ~Succeeded(hist[Winner][k])
    /\ \E w \in Workers \ {Winner} :
           /\ wpc[w] = "sendOK"
           /\ Len(hist[w]) >= 2
           /\ Succeeded(hist[w][Len(hist[w])])

\* Worker w's first attempt ended in a success.
FirstAttemptSucceeded(w) == Len(hist[w]) >= 1 /\ Succeeded(hist[w][1])
\* No attempt of worker w has failed.
NoFailure(w) == \A k \in 1..Len(hist[w]) : Succeeded(hist[w][k])
\* Every attempt of worker w has failed.
AllFailed(w) == \A k \in 1..Len(hist[w]) : ~Succeeded(hist[w][k])
\* A returned value that is a success response.
ReturnedSuccess(r) == r.err = NilErr /\ r.resp.kind = "resp" /\ r.resp.StatusCode < FailStatus

\* C4 (as claimed): when the orchestrator receives the call's outcome while some worker
\* holds the success of its first attempt, what it receives is a first-attempt success,
\* no backoff was invoked and no worker made a second attempt.
C4_Original ==
    [][(opc = "recv" /\ opc' = "close" /\ \E w \in Workers : FirstAttemptSucceeded(w))
           => /\ ReturnedSuccess(res') /\ res'.retry = 0
              /\ \A w \in Workers : backoffs[w] = <<>> /\ Len(hist[w]) <= 1]_vars

\* C4 (amended): while some worker's first attempt has succeeded and no attempt of any
\* worker has failed, no backoff has been invoked, no worker has started a second
\* attempt, and a call that has returned has returned a first-attempt success response.
C4_AllFirstAttemptsSucceed ==
    ((\E w \in Workers : FirstAttemptSucceeded(w)) /\ (\A w \in Workers : NoFailure(w)))
        => /\ \A w \in Workers : backoffs[w] = <<>> /\ Len(hist[w]) <= 1 /\ i[w] = 0
           /\ opc = "returned"
                  => /\ ReturnedSuccess(ret)
                     /\ ret.resp = hist[Winner][1].resp
                     /\ SuccessRetryNum = 0

\* A Get with two workers returned worker 1's first-attempt success while worker 0,
\* whose first attempt succeeded too, is left with a success nobody receives.
C4_Witness ==
    /\ opc = "returned" /\ Concurrency = 2 /\ Winner = 1
    /\ \A w \in Workers : FirstAttemptSucceeded(w) /\ NoFailure(w)
    /\ wpc[0] = "sendOK"

\* The entries of the ErrLog that worker w appended.
EntriesOf(w) == SelectSeq(ErrLog, LAMBDA e : e.Request = w)
\* The error a failed transport outcome is to be reported as: the transport's error,
\* or one made of the status of the response.
ClassifiedErr(o) == IF o.err.kind # "nil" THEN o.err ELSE StatusErr(o.resp.StatusCode)

\* C5: with MaxRetries = N >= 1 and KeepLog, a worker that offers its exhausted-failure
\* outcome has made N attempts, all failed, and has appended exactly N entries, with
\* retry indexes 0..N-1 in order and its own index as request; and a call that returns
\* such an outcome returns an error.
C5_ExhaustedWorkerLoggedN ==
    (MaxRetries >= 1 /\ KeepLog)
        => /\ \A w \in Workers :
                  wpc[w] = "sendExhausted"
                      => /\ Len(hist[w]) = MaxRetries /\ AllFailed(w)
                         /\ Len(EntriesOf(w)) = MaxRetries
                         /\ \A k \in 1..Len(EntriesOf(w)) :
                                /\ EntriesOf(w)[k].Retry = k - 1
                                /\ EntriesOf(w)[k].Err = ClassifiedErr(hist[w][k])
           /\ (opc = "returned" /\ AllFailed(Winner))
                  => /\ ret.err # NilErr
                     /\ Len(EntriesOf(Winner)) = MaxRetries

\* A Do with MaxRetries = 3 and KeepLog against a target that answered 500 three times
\* returned an error, with three entries of worker 0 in the log.
C5_Witness ==
    /\ p.method = "Do" /\ MaxRetries = 3 /\ KeepLog /\ opc = "returned"
    /\ ret.err = StatusErr(500)
    /\ \A k \in 1..Len(hist[0]) : hist[0][k].resp.StatusCode = 500
    /\ Len(ErrLog) = 3 /\ Len(EntriesOf(0)) = 3

\* A step of the call's own goroutines: the orchestrator or one of its workers.
CallStep == OrchestratorStep \/ \E w \in Workers : WorkerStep(w)

\* C6 (as claimed): with MaxRetries <= 0 no attempt is issued to the transport and the
\* call terminates: until it has returned, the orchestrator or a worker can take a step.
C6_Original ==
    (opc # "idle" /\ MaxRetries <= 0)
        => /\ \A w \in Workers :
                  hist[w] = <<>> /\ wpc[w] \notin {"rehydrate", "dispatch", "inflight"}
           /\ opc \in {"returned", "readError"} \/ ENABLED CallStep

\* The bytes captured from the body the caller supplied to the call.
CapturedBody ==
    IF p.method = "Do" THEN originalRequestBody
    ELSE IF p.method = "Post" THEN originalBody
    ELSE <<>>

\* C7 (as claimed): the body the transport is given in every attempt of every worker
\* is the captured bytes, whole.
C7_Original ==
    \A w \in Workers : wpc[w] = "inflight" => seen[w] = CapturedBody

\* C8 (as claimed): after a call has returned an outcome of attempts, SuccessReqNum is the index of
\* the worker whose outcome was returned, a success or an exhausted failure, and for a
\* success SuccessRetryNum is the retry index of the attempt that succeeded.
C8_Original ==
    (opc = "returned" /\ hist[Winner] # <<>>)
        => /\ SuccessReqNum = Winner
           /\ (hist[Winner] # <<>> /\ Succeeded(hist[Winner][Len(hist[Winner])]))
                  => SuccessRetryNum = Len(hist[Winner]) - 1

\* C9: a call that returns the exhausted failure of a worker that made attempts returns
\* the classified error of that worker's last, MaxRetries-th, attempt.
C9_LastErrorOfWinner ==
    (opc = "returned" /\ hist[Winner] # <<>> /\ ~Succeeded(hist[Winner][Len(hist[Winner])]))
        => /\ Len(hist[Winner]) = MaxRetries
           /\ ret.err = ClassifiedErr(hist[Winner][MaxRetries])
           /\ ret.err # NilErr
           /\ ret.resp = hist[Winner][MaxRetries].resp

\* The call returned the 500 of the winner's second and last attempt; its first attempt
\* ended in a transport error, and so did the last attempt of the other worker.
C9_Witness ==
    /\ opc = "returned" /\ MaxRetries = 2 /\ Concurrency = 2
    /\ Len(hist[Winner]) = 2
    /\ hist[Winner][1].err = TransportErr
    /\ hist[Winner][2].resp = Resp(500)
    /\ ret.err = StatusErr(500)
    /\ \E w \in Workers \ {Winner} :
           hist[w] # <<>> /\ hist[w][Len(hist[w])].err = TransportErr

\* The attempts worker w has issued: those that ended and the one in flight.
Issued(w) == Len(hist[w]) + (IF wpc[w] = "inflight" THEN 1 ELSE 0)
\* The attempts issued by all workers.
TotalIssued == Cardinality(UNION {{<<w, k>> : k \in 1..Issued(w)} : w \in Workers})

\* C10: in a GET call with Concurrency = K >= 1 in which no attempt has failed, every
\* worker has issued at most one attempt, at most K attempts have been issued in all,
\* and a call that has returned after an attempt was made has returned the success of
\* exactly one worker's first attempt.
C10_OneSuccessAtMostKAttempts ==
    (p.verb = "GET" /\ Concurrency >= 1 /\ \A w \in Workers : NoFailure(w))
        => /\ \A w \in Workers : Issued(w) <= 1
           /\ TotalIssued <= Concurrency
           /\ (opc = "returned" /\ \E w \in Workers : hist[w] # <<>>)
                  => /\ Len(delivered) = 1
                     /\ FirstAttemptSucceeded(Winner)
                     /\ ret.resp = hist[Winner][1].resp
                     /\ ret.err = NilErr

\* A Get with Concurrency = 2 returned worker 0's success; both workers made one
\* attempt, both succeeded, and worker 1's success is left unreceived.
C10_Witness ==
    /\ p.method = "Get" /\ Concurrency = 2 /\ opc = "returned"
    /\ \A w \in Workers : NoFailure(w)
    /\ TotalIssued = 2
    /\ Winner = 0 /\ wpc[1] = "sendOK"

\* The number of lines of a string LogString returned.
Lines(str) == Cardinality({k \in 1..Len(str) : str[k] = "\n"})
\* The words of its k-th line.
LineOf(str, k) == SubSeq(str, (k - 1) * LineTokens + 1, k * LineTokens)
\* The worker index and the retry index a line shows.
RequestOf(line) == CHOOSE n \in 0..MaxConcurrency : ToString(n) = line[3]
RetryOf(line) == CHOOSE k \in 0..MaxRetriesBound : ToString(k) = line[4]

\* C11 (as claimed): the string LogString returned has exactly one line per entry the
\* ErrLog held, in the order of the appends (the log only grows, so these are its
\* first entries now), and the lines of one worker show strictly increasing retry
\* indexes.
C11_Original ==
    lpc = "returned"
        => /\ Len(logOut) = LineTokens * Lines(logOut)
           /\ Lines(logOut) <= Len(ErrLog)
           /\ \A k \in 1..Lines(logOut) :
                  k <= Len(ErrLog)
                      => /\ LineOf(logOut, k)[1] = ErrLog[k].Method
                         /\ LineOf(logOut, k)[2] = ErrLog[k].Verb
                         /\ RequestOf(LineOf(logOut, k)) = ErrLog[k].Request
                         /\ RetryOf(LineOf(logOut, k)) = ErrLog[k].Retry
                         /\ LineOf(logOut, k)[5] = ErrString(ErrLog[k].Err)
           /\ \A j, k \in 1..Lines(logOut) :
                  (j < k /\ RequestOf(LineOf(logOut, j)) = RequestOf(LineOf(logOut, k)))
                      => RetryOf(LineOf(logOut, j)) < RetryOf(LineOf(logOut, k))

\* The same, for a LogString whose load of c.ErrLog raced with no store: what the
\* rendering does with the slice it was given.
C11_RenderOfQuietLog ==
    (lpc = "returned" /\ logSnap # <<>> /\ logSnap[Len(logSnap)] # StaleEntry)
        => /\ Len(logOut) = LineTokens * Len(logSnap)
           /\ Lines(logOut) = Len(logSnap)
           /\ Len(logSnap) <= Len(ErrLog)
           /\ \A k \in 1..Len(logSnap) :
                  /\ logSnap[k] = ErrLog[k]
                  /\ RequestOf(LineOf(logOut, k)) = ErrLog[k].Request
                  /\ RetryOf(LineOf(logOut, k)) = ErrLog[k].Retry

\* The base delay, in milliseconds, of the strategy called with the index called.
Base ==
    IF bStrategy = "LinearJitterBackoff" THEN MsPerUnit * bIndex
    ELSE MsPerUnit * Pow2(bIndex)
\* The larger of two numbers.
Max(a, b) == IF a >= b THEN a ELSE b

\* C12 (as claimed): the duration a jittered strategy returned, in milliseconds, lies in
\* [max(1, B - B/3), B + B/3], B being the base delay.
C12_Original ==
    bMs # <<>>
        => /\ Max(1, Base - Base \div JitterDivisor) <= bMs[1]
           /\ bMs[1] <= Base + Base \div JitterDivisor

\* C12: the duration a jittered strategy returned, in milliseconds, lies in
\* [max(1, B - B/3), max(1, B + B/3)], B being the base delay: at least 1 ms, which is
\* what a base delay of 0 gives.
C12_WithinBandFloorOne ==
    bMs # <<>>
        => /\ Max(1, Base - Base \div JitterDivisor) <= bMs[1]
           /\ bMs[1] <= Max(1, Base + Base \div JitterDivisor)
           /\ Base = 0 => bMs[1] = 1

\* LinearJitterBackoff(0) returned 1 ms, above its base delay of 0.
C12_Witness ==
    bStrategy = "LinearJitterBackoff" /\ bIndex = 0 /\ Base = 0 /\ bMs = <<1>>

\* Worker w is at the head of its loop with an attempt left, the signal raised: its
\* next step is the pre-attempt check.
AtCheckAfterSignal(w) == finishCh /\ wpc[w] = "loop" /\ i[w] < MaxRetries
\* The workers whose outcome was received.
Delivered == {delivered[k] : k \in 1..Len(delivered)}

\* C13: after close(finishCh) a worker starts at most one further attempt, and none if
\* it had an attempt in flight at the close; a worker that comes to its pre-attempt
\* check after the close stops there; and a worker stopped there has offered no result
\* and none of its was received.
C13_CancelledWorkersStop ==
    /\ [](\A w \in Workers :
              /\ lateStarts[w] <= 1
              /\ w \in midAtSignal => lateStarts[w] = 0
              /\ wpc[w] = "cancelled"
                     => finishCh /\ out[w] = NoResult /\ w \notin Delivered)
    /\ [][\A w \in Workers :
              (AtCheckAfterSignal(w) /\ wpc'[w] # wpc[w]) => wpc'[w] = "cancelled"]_vars

\* Worker 1 had passed its check when worker 0's success was received; it started its
\* attempt after the close, the attempt failed, and at its next check it stopped,
\* with attempts left.
C13_Witness ==
    /\ opc = "returned" /\ Winner = 0
    /\ lateStarts[1] = 1 /\ 1 \notin midAtSignal
    /\ Len(hist[1]) = 1 /\ AllFailed(1) /\ MaxRetries >= 2
    /\ wpc[1] = "cancelled"

\* Worker w offers its outcome on resultCh.
Sending(w) == wpc[w] \in {"sendOK", "sendExhausted"}

\* C14 (as claimed): a worker whose outcome, the outcome of attempts it made, is ready
\* when the orchestrator has already taken the first outcome does not stay blocked in
\* its send: it can go on, or be received, in the state it is in. (The orchestrator
\* takes no second outcome and no step of a worker drops its send, so a worker that
\* cannot move in such a state never moves again.)
C14_Original ==
    \A w \in Workers :
        (Sending(w) /\ hist[w] # <<>> /\ delivered # <<>>)
            => ENABLED (WorkerStep(w) \/ Receive(w))

\* C15: close(finishCh) runs at most once in a call: not before an outcome was
\* received, and exactly once by the time the call returns an outcome, however many
\* workers have an outcome ready.
C15_FinishClosedOnce ==
    /\ closes <= 1
    /\ finishCh <=> closes = 1
    /\ opc \in {"idle", "spawn", "recv", "close", "readError"} => closes = 0
    /\ opc \in {"record", "returned"} => closes = 1 /\ Len(delivered) = 1

\* A Get with two workers returned the outcome of one of them while the other one's
\* outcome was ready too; finishCh was closed once.
C15_Witness ==
    /\ opc = "returned" /\ Concurrency = 2 /\ closes = 1
    /\ \E w \in Workers \ {Winner} : Sending(w)

\* The attempts of worker w that ended in a failure.
Failures(w) == {k \in 1..Len(hist[w]) : ~Succeeded(hist[w][k])}
\* The failed attempts of all workers.
TotalFailures == Cardinality(UNION {{<<w, k>> : k \in Failures(w)} : w \in Workers})
\* Worker w is inside c.log with an entry not yet in the log.
Logging(w) == wpc[w] \in {"log", "append", "store"}
\* Worker w holds the lock for its append.
Appending(w) == wpc[w] \in {"append", "store"}
\* Worker w takes no further step: it was not spawned, it returned, or it is blocked
\* in a send after the orchestrator took the first outcome.
Stopped(w) ==
    \/ wpc[w] \in {"none", "done", "cancelled"}
    \/ Sending(w) /\ delivered # <<>>

\* C16: with KeepLog at most one worker is inside the append at a time, and it holds
\* the lock; every failed attempt of a worker has its entry in the log except the one
\* the worker is just logging; and once all workers of a call have stopped the log has
\* as many entries as there were failed attempts.
C16_AppendsExclusiveNoneLost ==
    KeepLog
        => /\ Cardinality({w \in Workers : Appending(w)}) <= 1
           /\ \A w \in Workers :
                  /\ Appending(w) => mutex = w
                  /\ Len(EntriesOf(w)) =
                         Cardinality(Failures(w)) - (IF Logging(w) THEN 1 ELSE 0)
           /\ (SpawnDone /\ \A w \in Workers : Stopped(w)) => Len(ErrLog) = TotalFailures

\* A Get with two workers and two attempts each, all four failed: the call returned
\* the exhausted failure of one worker, the other is left in its send, and the log
\* holds four entries, the two workers' entries interleaved.
C16_Witness ==
    /\ KeepLog /\ opc = "returned" /\ Concurrency = 2 /\ MaxRetries = 2
    /\ \A w \in Workers : Stopped(w) /\ Cardinality(Failures(w)) = 2
    /\ Len(ErrLog) = 4
    /\ ErrLog[1].Request # ErrLog[2].Request
    /\ ErrLog[3].Request # ErrLog[4].Request

\* The last transport outcome of worker w.
LastOutcome(w) == hist[w][Len(hist[w])]

\* C17 (as claimed): a call that returned a nil error returned the response of an
\* attempt that ended with no transport error and a status below 400, whatever
\* MaxRetries is.
C17_Original ==
    (opc \in {"returned", "readError"} /\ ret.err = NilErr)
        => \E w \in Workers : \E k \in 1..Len(hist[w]) :
               Succeeded(hist[w][k]) /\ ret.resp = hist[w][k].resp

\* C17: a call with MaxRetries >= 1 that returned a nil error returned the response of
\* the last attempt of the worker whose outcome was received, which ended with no
\* transport error and a status below 400; a call with MaxRetries <= 0 that returned
\* from the receive loop returned a nil error and the empty response, no attempt made.
C17_NilErrorIsSuccessOrNoAttempt ==
    /\ (opc \in {"returned", "readError"} /\ ret.err = NilErr /\ MaxRetries >= 1)
           => /\ opc = "returned"
              /\ hist[Winner] # <<>>
              /\ Succeeded(LastOutcome(Winner))
              /\ ret.resp = LastOutcome(Winner).resp
              /\ ret.resp.kind = "resp" /\ ret.resp.StatusCode < FailStatus
    /\ (opc = "returned" /\ MaxRetries <= 0)
           => /\ ret = [resp |-> EmptyResp, err |-> NilErr]
              /\ \A w \in Workers : hist[w] = <<>>

\* A call returned a nil error and the 200 of its second attempt, the first having
\* ended in a 500.
C17_Witness ==
    /\ opc = "returned" /\ ret.err = NilErr /\ MaxRetries >= 2
    /\ Len(hist[Winner]) = 2
    /\ hist[Winner][1].resp = Resp(500)
    /\ ret.resp = Resp(200)

\* Worker w has a failed attempt whose backoff it has not yet waited out.
BeforeBackoff(w) == Logging(w) \/ wpc[w] = "backoff"
\* Worker w offers, or has delivered, the exhausted failure of attempts it made.
Exhausted(w) ==
    /\ hist[w] # <<>> /\ ~Succeeded(LastOutcome(w))
    /\ wpc[w] = "sendExhausted" \/ (wpc[w] = "done" /\ w \in Delivered)

\* C18: a worker has called c.Backoff and waited once for each of its failed attempts,
\* but for the one it is just handling, with the indexes 0, 1, 2, ... in order; a
\* worker that offers the exhausted failure of N = MaxRetries attempts has done so N
\* times, with the indexes 0..N-1, the last wait included.
C18_BackoffAfterEveryFailure ==
    \A w \in Workers :
        /\ backoffs[w] = [k \in 1..Len(backoffs[w]) |-> k - 1]
        /\ Len(backoffs[w]) = Cardinality(Failures(w)) - (IF BeforeBackoff(w) THEN 1 ELSE 0)
        /\ Exhausted(w)
               => /\ Len(hist[w]) = MaxRetries /\ AllFailed(w)
                  /\ backoffs[w] = [k \in 1..MaxRetries |-> k - 1]
                  /\ i[w] = MaxRetries

\* A worker offers its exhausted failure after three failed attempts and three
\* backoffs, called with 0, 1 and 2.
C18_Witness ==
    \E w \in Workers :
        /\ wpc[w] = "sendExhausted" /\ MaxRetries = 3
        /\ Len(hist[w]) = 3 /\ AllFailed(w)
        /\ backoffs[w] = <<0, 1, 2>>

\* C19: in a call whose verb is GET, made with Concurrency <= 0 and past the capture of
\* the body, no worker is spawned, no result is offered or received and no attempt is
\* made, whatever MaxRetries is; the call does not return: the orchestrator gets to its
\* receive, and there neither it nor a worker can take a step.
C19_GetWithoutWorkersBlocks ==
    (p.verb = "GET" /\ Concurrency <= 0 /\ opc \notin {"idle", "readError"})
        => /\ Spawned = {} /\ req = 0
           /\ delivered = <<>>
           /\ \A w \in Workers : out[w] = NoResult /\ hist[w] = <<>>
           /\ opc \in {"spawn", "recv"}
           /\ ret = NoReturn
           /\ opc = "recv" => ~ENABLED CallStep

\* A Get with Concurrency = 0 and MaxRetries = 3 is in its receive with no worker.
C19_Witness ==
    /\ p.method = "Get" /\ Concurrency = 0 /\ MaxRetries = 3
    /\ opc = "recv" /\ Spawned = {}
    /\ ~ENABLED CallStep

\* C20 (as claimed): while LogString reads the ErrLog no worker is inside its append
\* to it, between c.Lock() and c.Unlock().
C20_Original ==
    lpc = "range" => \A w \in Workers : ~Appending(w)

====
